---- MODULE Spec2Model ----
(***************************************************************************)
(* Model of driver/dev_driver.py, the stateless single-shot desktop        *)
(* automation driver (observe, click, type, inspect, focus, diff), and of  *)
(* skills/microloop/scripts/preflight_hook.py, the pre-execution gate.     *)
(*                                                                         *)
(* One invocation of the driver is one process: main() parses the command  *)
(* line, dispatches to one cmd_* handler and exits.  The model keeps the    *)
(* live desktop (screen size, enumerated windows), the parsed arguments,   *)
(* the answers the desktop gives to the native queries of the invocation   *)
(* (the oracle), the ordered log of native calls, the lines written to      *)
(* standard output and the exit code.                                      *)
(*                                                                         *)
(* Python functions are operators that return a record                     *)
(*   [exc, msg, titles, nums, val, ev, out]                                *)
(* exc = "" for a normal return (val is the returned tuple) or the name of *)
(* the raised exception; ev is the sequence of native calls made, out the  *)
(* lines printed.                                                          *)
(***************************************************************************)
EXTENDS Integers, Sequences, FiniteSets, TLC

\* ---------------------------------------------------------------- bounds
\* most windows on the desktop of the window-resolution specification
MaxWindows == 6
\* most windows on the desktop of the driver specification
MaxDesktop == 2
\* largest rectangle width/height of the geometry specification
MaxSide == 4
\* most pixels of an image of the diff specification
MaxPixels == 2

\* ------------------------------------------------------- program constants
SCREEN_WIDTH == 1920
SCREEN_HEIGHT == 1080
\* REL_MAX = 1000.0
REL_MAX == 1000
OVERLAY_DEFAULT_MS == 600

\* Python None for an optional numeric argument (argparse default)
None == -1000000
\* float arguments (--rel-x, --rel-y) are fixed-point: value = n / RelDen
RelDen == 10

\* ---------------------------------------------------------------- strings
\* A Python str is a sequence of one-character strings.
\* str.lower() on the characters that occur in the model
LowerChar(c) ==
    CASE c = "E" -> "e"
      [] c = "D" -> "d"
      [] c = "W" -> "w"
      [] c = "B" -> "b"
      [] OTHER -> c

lower(s) == [i \in 1..Len(s) |-> LowerChar(s[i])]

IsSpace(c) == c = " "

RECURSIVE lstrip(_)
lstrip(s) ==
    IF s # <<>> /\ IsSpace(Head(s)) THEN lstrip(Tail(s)) ELSE s

RECURSIVE rstrip(_)
rstrip(s) ==
    IF s # <<>> /\ IsSpace(s[Len(s)]) THEN rstrip(SubSeq(s, 1, Len(s) - 1)) ELSE s

\* str.strip()
strip(s) == rstrip(lstrip(s))

\* Python `needle in hay` for strings
Contains(hay, needle) ==
    \E i \in 0..(Len(hay) - Len(needle)) :
        SubSeq(hay, i + 1, i + Len(needle)) = needle

\* ------------------------------------------------------- call results
\* one native call (or step) of the invocation, in program order
\* and, for a call with more than two numeric arguments, the rest of them
EvN(call, hwnd, x, y, rest) ==
    [call |-> call, hwnd |-> hwnd, x |-> x, y |-> y, rest |-> rest]

Ev(call, hwnd, x, y) == EvN(call, hwnd, x, y, <<>>)

Ret(v, ev) ==
    [exc |-> "", msg |-> "", titles |-> <<>>, nums |-> <<>>, val |-> v, ev |-> ev, out |-> <<>>]

Raise(exc, msg, titles, nums, ev) ==
    [exc |-> exc, msg |-> msg, titles |-> titles, nums |-> nums, val |-> <<>>, ev |-> ev, out |-> <<>>]

\* the value of F at the value of r, r evaluated once
Bind(r, F(_)) == CHOOSE v \in { F(x) : x \in {r} } : TRUE

\* res, with the calls and lines of the earlier step r put before its own
After(r, res) == [res EXCEPT !.ev = r.ev \o @, !.out = r.out \o @]

\* `r = first(...)` followed by the rest K(r) of the function body: an
\* exception raised by first propagates, otherwise the body goes on
Then(first, K(_)) ==
    Bind(first, LAMBDA r : IF r.exc # "" THEN r ELSE After(r, K(r)))

\* ------------------------------------------------------- window resolution
\* _enum_windows: visible top-level windows with a non-empty title, in
\* enumeration order, as indexes into the desktop's window list
enum_windows(wins) ==
    SelectSeq([i \in 1..Len(wins) |-> i],
              LAMBDA i : wins[i].visible /\ wins[i].title # <<>>)

\* matches[:5]
FirstFive(s) == SubSeq(s, 1, IF Len(s) < 5 THEN Len(s) ELSE 5)

\* the matches list of _find_window_by_title
Matches(wins, needle) ==
    SelectSeq(enum_windows(wins), LAMBDA i : Contains(lower(wins[i].title), needle))

\* the slice of the matches whose titles go into the "multiple windows" message
ListedMut(matches) == matches

Listed(matches) == FirstFive(matches)

\* _find_window_by_title: val = <<hwnd>>; the title is wins[hwnd].title
find_window_by_title(wins, title) ==
    IF lower(strip(title)) = <<>>
    THEN Raise("RuntimeError", "empty window title", <<>>, <<>>, <<>>)
    ELSE Bind(Matches(wins, lower(strip(title))), LAMBDA matches :
        IF matches = <<>>
        THEN Raise("RuntimeError", "no window title contains", <<title>>, <<>>,
                   <<Ev("EnumWindows", 0, 0, 0)>>)
        ELSE IF Len(matches) > 1
        THEN Bind(Listed(matches), LAMBDA listed :
                Raise("RuntimeError", "multiple windows matched",
                      [k \in 1..Len(listed) |-> wins[listed[k]].title],
                      <<>>, <<Ev("EnumWindows", 0, 0, 0)>>))
        ELSE Ret(<<wins[matches[1]].hwnd>>, <<Ev("EnumWindows", 0, 0, 0)>>))

\* ------------------------------------------------------------- geometry
Max(a, b) == IF a > b THEN a ELSE b

Min(a, b) == IF a < b THEN a ELSE b

\* Python round() of the non-negative rational num/den: half to even
RoundHalfEven(num, den) ==
    LET q == num \div den
        r == num % den
    IN  IF 2 * r < den THEN q
        ELSE IF 2 * r > den THEN q + 1
        ELSE IF q % 2 = 0 THEN q ELSE q + 1

\* _validate_rel, rel in units of 1/RelDen
validate_rel_ok(rel) == 0 <= rel /\ rel <= REL_MAX * RelDen

\* the span a relative coordinate is scaled by
SpanMut(side) == side

Span(side) == Max(side - 1, 0)

\* _rel_to_abs: rect = <<left, top, right, bottom>>, val = <<x, y>>
rel_to_abs(rel_x, rel_y, rect) ==
    LET left == rect[1]
        top == rect[2]
        width == rect[3] - rect[1]
        height == rect[4] - rect[2]
    IN  IF ~validate_rel_ok(rel_x)
        THEN Raise("ValueError", "relative coordinate out of bounds", <<>>, <<rel_x>>, <<>>)
        ELSE IF ~validate_rel_ok(rel_y)
        THEN Raise("ValueError", "relative coordinate out of bounds", <<>>, <<rel_y>>, <<>>)
        ELSE IF width <= 0 \/ height <= 0
        THEN Raise("RuntimeError", "invalid rect size", <<>>, <<width, height>>, <<>>)
        ELSE Ret(<<left + RoundHalfEven(rel_x * Span(width), REL_MAX * RelDen),
                   top + RoundHalfEven(rel_y * Span(height), REL_MAX * RelDen)>>, <<>>)

\* ------------------------------------------------------- result envelope
\* one JSON line on standard output
Line(status, action, message, titles, nums) ==
    [status |-> status, action |-> action, message |-> message,
     titles |-> titles, nums |-> nums]

\* _print_json: x = 0 for an ok line, 1 for an error line
PrintEv(status) == Ev("print", 0, IF status = "ok" THEN 0 ELSE 1, 0)

\* `_ok(action, ...)` followed by `return 0`, after the native calls ev
ok(action, titles, nums, ev) ==
    [exc |-> "", msg |-> "", titles |-> <<>>, nums |-> <<>>, val |-> <<0>>,
     ev |-> ev \o <<PrintEv("ok")>>,
     out |-> <<Line("ok", action, "", titles, nums)>>]

\* `return _error(action, message)`
error(action, message, nums) ==
    [exc |-> "", msg |-> "", titles |-> <<>>, nums |-> <<>>, val |-> <<1>>,
     ev |-> <<PrintEv("error")>>,
     out |-> <<Line("error", action, message, <<>>, nums)>>]

\* ------------------------------------------------------- native helpers
WM_MOUSEMOVE == 512
WM_LBUTTONDOWN == 513
WM_LBUTTONUP == 514
SW_MAXIMIZE == 3
SW_RESTORE == 9

\* the desktop's window hierarchy: handle h is a child of handle h \div 10,
\* handles 1..9 are top-level (GetParent returns 0)
GetParent(h) == h \div 10

\* _root_hwnd: GetAncestor(GA_ROOT), or the walk up the parent links
RECURSIVE root_hwnd(_)
root_hwnd(h) ==
    IF GetParent(h) = 0 THEN h ELSE root_hwnd(GetParent(h))

\* _ensure_screen_size
ensure_screen_size(scr) ==
    IF scr # <<SCREEN_WIDTH, SCREEN_HEIGHT>>
    THEN Raise("RuntimeError", "screen size mismatch", <<>>,
               <<scr[1], scr[2], SCREEN_WIDTH, SCREEN_HEIGHT>>,
               <<Ev("GetSystemMetrics", 0, scr[1], scr[2])>>)
    ELSE Ret(<<>>, <<Ev("GetSystemMetrics", 0, scr[1], scr[2])>>)

\* _validate_xy
validate_xy_ok(x, y) ==
    0 <= x /\ x < SCREEN_WIDTH /\ 0 <= y /\ y < SCREEN_HEIGHT

\* _lparam_from_client_xy: (y << 16) | (x & 0xFFFF)
lparam_from_client_xy(x, y) == y * 65536 + (x % 65536)

\* _window_at_point: hit is the desktop's answer to WindowFromPoint
window_at_point(x, y, hit) ==
    IF hit = 0
    THEN Raise("RuntimeError", "no window found at target point", <<>>, <<>>,
               <<Ev("WindowFromPoint", hit, x, y)>>)
    ELSE Ret(<<hit>>, <<Ev("WindowFromPoint", hit, x, y)>>)

\* _post_click: x of the event is the message, y its lParam
post_clickMut(hwnd, client_x, client_y) ==
    << Ev("PostMessage", root_hwnd(hwnd), WM_MOUSEMOVE,
          lparam_from_client_xy(client_x, client_y)),
       Ev("PostMessage", root_hwnd(hwnd), WM_LBUTTONDOWN,
          lparam_from_client_xy(client_x, client_y)),
       Ev("PostMessage", root_hwnd(hwnd), WM_LBUTTONUP,
          lparam_from_client_xy(client_x, client_y)) >>

post_click(hwnd, client_x, client_y) ==
    << Ev("PostMessage", hwnd, WM_MOUSEMOVE, lparam_from_client_xy(client_x, client_y)),
       Ev("PostMessage", hwnd, WM_LBUTTONDOWN, lparam_from_client_xy(client_x, client_y)),
       Ev("PostMessage", hwnd, WM_LBUTTONUP, lparam_from_client_xy(client_x, client_y)) >>

\* win32gui.ScreenToClient followed by _post_click: org is the screen position
\* of hwnd's client origin
to_client_and_post(hwnd, x, y, org) ==
    <<Ev("ScreenToClient", hwnd, x, y)>> \o post_click(hwnd, x - org[1], y - org[2])

\* _click_at
click_at(x, y, o, scr) ==
    Then(ensure_screen_size(scr), LAMBDA s :
        IF ~validate_xy_ok(x, y)
        THEN Raise("ValueError", "coordinate out of bounds", <<>>, <<x, y>>, <<>>)
        ELSE Then(window_at_point(x, y, o.hit2), LAMBDA h :
                Ret(<<>>, to_client_and_post(h.val[1], x, y, o.org))))

\* _focus_window: pywin32 raises when SetForegroundWindow is refused
focus_window(hwnd, maximize, o) ==
    IF o.fg_denied
    THEN Raise("error", "SetForegroundWindow", <<>>, <<>>,
               << Ev("ShowWindow", hwnd, IF maximize THEN SW_MAXIMIZE ELSE SW_RESTORE, 0),
                  Ev("SetForegroundWindow", hwnd, 0, 0) >>)
    ELSE Ret(<<>>, << Ev("ShowWindow", hwnd, IF maximize THEN SW_MAXIMIZE ELSE SW_RESTORE, 0),
                      Ev("SetForegroundWindow", hwnd, 0, 0) >>)

\* _window_rect: o.rect is the window rectangle the desktop reports (extended
\* frame bounds or GetWindowRect), o.crect the client corners mapped to screen
window_rect(hwnd, mode, o) ==
    IF mode \notin {"window", "client"}
    THEN Raise("RuntimeError", "unknown mode", <<>>, <<>>, <<>>)
    ELSE IF mode = "window"
    THEN Ret(o.rect, <<Ev("DwmGetWindowAttribute", hwnd, 0, 0)>>)
    ELSE Ret(o.crect, << Ev("GetClientRect", hwnd, 0, 0),
                        Ev("ClientToScreen", hwnd, 0, 0),
                        Ev("ClientToScreen", hwnd, 0, 0) >>)

\* ------------------------------------------------------------------ click
\* the identity test of the hit-tested window against the intended target
TargetMismatchMut(hit_hwnd, hwnd) == root_hwnd(hit_hwnd) = hwnd

TargetMismatch(hit_hwnd, hwnd) == root_hwnd(hit_hwnd) # hwnd

\* cmd_click, relative branch once the window is resolved
click_rel(a, o, wins, hwnd) ==
    Then(window_rect(hwnd, a.mode, o), LAMBDA wr :
      Then(rel_to_abs(a.rel_x, a.rel_y, wr.val), LAMBDA p :
        Then(window_at_point(p.val[1], p.val[2], o.hit1), LAMBDA h :
          IF TargetMismatch(h.val[1], hwnd)
          THEN error("click", "target window mismatch at point (window may be unfocused or covered)", <<>>)
          ELSE ok("click", <<wins[hwnd].title>>, p.val \o wr.val \o <<h.val[1]>>,
                  to_client_and_post(h.val[1], p.val[1], p.val[2], o.org)))))

\* cmd_click, absolute branch: `_click_at(x, y)` then `_ok`
click_abs(a, o, scr) ==
    Then(click_at(a.x, a.y, o, scr), LAMBDA c : ok("click", <<>>, <<a.x, a.y>>, <<>>))

\* `_find_window_by_title` and, with --activate, `_focus_window`: val = <<hwnd>>
resolve_and_activate(a, o, wins, window_title) ==
    Then(find_window_by_title(wins, window_title), LAMBDA f :
        IF a.activate
        THEN Then(focus_window(f.val[1], a.maximize, o), LAMBDA act : Ret(f.val, <<>>))
        ELSE Ret(f.val, <<>>))

cmd_click(a, o, scr, wins) ==
    IF a.rel_x # None \/ a.rel_y # None
    THEN IF a.rel_x = None \/ a.rel_y = None
         THEN error("click", "--rel-x and --rel-y must be provided together", <<>>)
         ELSE IF strip(a.window_title) = <<>>
         THEN error("click", "--window-title is required for relative coordinates", <<>>)
         ELSE Then(resolve_and_activate(a, o, wins, strip(a.window_title)), LAMBDA w :
                 click_rel(a, o, wins, w.val[1]))
    ELSE IF a.x = None \/ a.y = None
    THEN error("click", "--x and --y are required when not using relative coordinates", <<>>)
    ELSE IF strip(a.window_title) # <<>>
    THEN Then(resolve_and_activate(a, o, wins, strip(a.window_title)), LAMBDA w :
            IF a.verify_window
            THEN Then(window_at_point(a.x, a.y, o.hit1), LAMBDA h :
                    IF TargetMismatch(h.val[1], w.val[1])
                    THEN error("click", "target window mismatch at point", <<>>)
                    ELSE click_abs(a, o, scr))
            ELSE click_abs(a, o, scr))
    ELSE click_abs(a, o, scr)

\* ------------------------------------------------------------------- diff
\* float argument --alpha is fixed-point: value = n / AlphaDen
AlphaDen == 100

Abs(n) == IF n < 0 THEN -n ELSE n

\* ImageChops.difference on one RGB pixel, then convert("L"):
\* L = (19595 R + 38470 G + 7471 B + 0x8000) >> 16
PixelDiffL(p, q) ==
    (19595 * Abs(p[1] - q[1]) + 38470 * Abs(p[2] - q[2])
        + 7471 * Abs(p[3] - q[3]) + 32768) \div 65536

\* mask = diff.point(lambda p: 255 if p > threshold else 0)
FlaggedMut(d, threshold) == d <= threshold

Flagged(d, threshold) == d > threshold

\* hist[255] of the mask
DiffPixels(img_a, img_b, threshold) ==
    Cardinality({ i \in 1..Min(Len(img_a.px), Len(img_b.px)) :
                    Flagged(PixelDiffL(img_a.px[i], img_b.px[i]), threshold) })

\* `img_a.size != img_b.size`
SizeMismatchMut(img_a, img_b) == img_a.size[1] # img_b.size[1]

SizeMismatch(img_a, img_b) == img_a.size # img_b.size

\* os.path.dirname(path) is not empty
HasDir(path) == \E i \in 1..Len(path) : path[i] = "/"

\* _safe_mkdir(os.path.dirname(out_path))
safe_mkdir(path, o) ==
    IF ~HasDir(path) THEN Ret(<<>>, <<>>)
    ELSE IF o.fault = "mkdir"
    THEN Raise("OSError", "makedirs", <<>>, <<>>, <<Ev("makedirs", 0, 0, 0)>>)
    ELSE Ret(<<>>, <<Ev("makedirs", 0, 0, 0)>>)

\* image.save(out_path, format="PNG")
save_png(o) ==
    IF o.fault = "save"
    THEN Raise("OSError", "save", <<>>, <<>>, <<Ev("save", 0, 0, 0)>>)
    ELSE Ret(<<>>, <<Ev("save", 0, 0, 0)>>)

\* Image.open(path).convert("RGB"): which = 1 for --a, 2 for --b
open_image(which, o) ==
    IF o.fault = (IF which = 1 THEN "open_a" ELSE "open_b")
    THEN Raise("FileNotFoundError", "open", <<>>, <<which>>, <<Ev("Image.open", 0, which, 0)>>)
    ELSE Ret(<<>>, <<Ev("Image.open", 0, which, 0)>>)

\* the metric of _write_diff_image: val = <<diff_pixels, total_pixels>>
diff_metric(img_a, img_b, threshold, alpha) ==
    Bind(DiffPixels(img_a, img_b, threshold), LAMBDA diff_pixels :
        Ret(<<diff_pixels, img_b.size[1] * img_b.size[2]>>,
            << Ev("ImageChops.difference", 0, 0, 0),
               Ev("histogram", 0, diff_pixels, img_b.size[1] * img_b.size[2]),
               Ev("Image.composite", 0, alpha, 0) >>))

\* _write_diff_image: val = <<diff_pixels, ratio numerator, ratio denominator, w, h>>
write_diff_image(threshold, alpha, out_path, o) ==
    IF threshold < 0 \/ threshold > 255
    THEN Raise("ValueError", "threshold must be in 0..255", <<>>, <<>>, <<>>)
    ELSE IF alpha < 0 \/ alpha > AlphaDen
    THEN Raise("ValueError", "alpha must be in 0..1", <<>>, <<>>, <<>>)
    ELSE Then(open_image(1, o), LAMBDA oa :
          Then(open_image(2, o), LAMBDA ob :
            IF SizeMismatch(o.imgA, o.imgB)
            THEN Raise("RuntimeError", "image size mismatch", <<>>,
                       o.imgA.size \o o.imgB.size, <<>>)
            ELSE Then(diff_metric(o.imgA, o.imgB, threshold, alpha), LAMBDA m :
                  Then(safe_mkdir(out_path, o), LAMBDA mk :
                    Then(save_png(o), LAMBDA sv :
                      Ret(<< m.val[1],
                             IF m.val[2] # 0 THEN m.val[1] ELSE 0,
                             IF m.val[2] # 0 THEN m.val[2] ELSE 1 >> \o o.imgB.size,
                          <<>>))))))

\* `int(getattr(args, "threshold", 20) or 20)`
ThresholdOrDefault(t) == IF t = 0 THEN 20 ELSE t

\* `float(getattr(args, "alpha", 0.6) or 0.6)`
AlphaOrDefault(al) == IF al = 0 THEN 60 ELSE al

cmd_diff(a, o) ==
    IF strip(a.a) = <<>> THEN error("diff", "--a is required", <<>>)
    ELSE IF strip(a.b) = <<>> THEN error("diff", "--b is required", <<>>)
    ELSE IF strip(a.out) = <<>> THEN error("diff", "--out is required", <<>>)
    ELSE Bind(write_diff_image(ThresholdOrDefault(a.threshold), AlphaOrDefault(a.alpha),
                               strip(a.out), o),
              LAMBDA r : IF r.exc # ""
                         THEN After(r, error("diff", r.msg, r.nums))
                         ELSE After(r, ok("diff", <<>>, r.val, <<>>)))

\* ---------------------------------------------------------------- observe
\* handle of the overlay window created by the n-th bracket of a capture
OverlayHwnd(n) == 900 + n

\* does the named native step of the n-th overlay bracket fail
Fails(o, step, n) == o.fault = step /\ o.fault_at = n

\* native calls of _create_overlay_window up to and including the named step
OverlaySteps(hwnd, upto) ==
    SubSeq(<< Ev("RegisterClass", 0, 0, 0),
              Ev("CreateWindowEx", hwnd, 0, 0),
              Ev("SetWindowDisplayAffinity", hwnd, 0, 0),
              Ev("SetLayeredWindowAttributes", hwnd, 0, 0),
              Ev("ShowWindow", hwnd, 0, 0),
              Ev("UpdateWindow", hwnd, 0, 0),
              Ev("PumpWaitingMessages", hwnd, 0, 0) >>, 1, upto)

\* _create_overlay_window: val = <<hwnd>>, <<0>> when CreateWindowEx gave no window
create_overlay_window(n, o) ==
    IF Fails(o, "register", n)
    THEN Raise("error", "RegisterClass", <<>>, <<>>, OverlaySteps(0, 1))
    ELSE IF Fails(o, "create_raises", n)
    THEN Raise("error", "CreateWindowEx", <<>>, <<>>, OverlaySteps(0, 2))
    ELSE IF Fails(o, "create_null", n)
    THEN Ret(<<0>>, OverlaySteps(0, 2))
    ELSE IF Fails(o, "setattr", n)
    THEN Raise("error", "SetLayeredWindowAttributes", <<>>, <<>>, OverlaySteps(OverlayHwnd(n), 4))
    ELSE IF Fails(o, "show", n)
    THEN Raise("error", "ShowWindow", <<>>, <<>>, OverlaySteps(OverlayHwnd(n), 5))
    ELSE IF Fails(o, "pump", n)
    THEN Raise("error", "PumpWaitingMessages", <<>>, <<>>, OverlaySteps(OverlayHwnd(n), 7))
    ELSE Ret(<<OverlayHwnd(n)>>, OverlaySteps(OverlayHwnd(n), 7))

\* _sleep_ms: time.sleep raises OverflowError for a dwell too large to convert
sleep_ms(ms, n, o) ==
    IF ms <= 0 THEN Ret(<<>>, <<>>)
    ELSE IF Fails(o, "sleep", n)
    THEN Raise("OverflowError", "timestamp too large", <<>>, <<>>, <<Ev("sleep", 0, ms, 0)>>)
    ELSE Ret(<<>>, <<Ev("sleep", 0, ms, 0)>>)

\* _destroy_overlay_window
destroy_overlay_windowMut(hwnd) == <<>>

destroy_overlay_window(hwnd) ==
    IF hwnd = 0 THEN <<>> ELSE <<Ev("DestroyWindow", hwnd, 0, 0)>>

\* the `if overlay:` block of a capture: create, dwell, destroy; val = <<shown>>
overlay_bracket(overlay, n, overlay_ms, o) ==
    IF ~overlay THEN Ret(<<0>>, <<>>)
    ELSE Then(create_overlay_window(n, o), LAMBDA c :
            IF c.val[1] # 0
            THEN Then(sleep_ms(overlay_ms, n, o), LAMBDA sl :
                    Ret(<<1>>, destroy_overlay_window(c.val[1])))
            ELSE Ret(<<0>>, destroy_overlay_window(c.val[1])))

\* _capture_fullscreen_image: the raw pixel grab of the whole screen
capture_fullscreen_image(o, scr) ==
    Then(ensure_screen_size(scr), LAMBDA s :
        IF o.fault = "grab"
        THEN Raise("error", "BitBlt", <<>>, <<>>,
                   << Ev("GetWindowDC", 0, 0, 0), Ev("BitBlt", 0, 0, 0), Ev("ReleaseDC", 0, 0, 0) >>)
        ELSE Ret(<<>>, << Ev("GetWindowDC", 0, 0, 0),
                          Ev("BitBlt", 0, SCREEN_WIDTH, SCREEN_HEIGHT),
                          Ev("ReleaseDC", 0, 0, 0) >>))

\* overlay_shown after both brackets
Shown(b1, b2) == IF b1.val[1] = 1 \/ b2.val[1] = 1 THEN 1 ELSE 0

\* _capture_fullscreen_png: val = <<overlay_shown>>
capture_fullscreen_png(out_path, overlay, overlay_ms, o, scr) ==
    Then(safe_mkdir(out_path, o), LAMBDA mk :
      Then(overlay_bracket(overlay, 1, overlay_ms, o), LAMBDA b1 :
        Then(capture_fullscreen_image(o, scr), LAMBDA im :
          Then(save_png(o), LAMBDA sv :
            Then(overlay_bracket(overlay, 2, overlay_ms, o), LAMBDA b2 :
              Ret(<<Shown(b1, b2)>>, <<>>))))))

\* `left < 0 or top < 0 or right > SCREEN_WIDTH or bottom > SCREEN_HEIGHT`
RectOutOfBounds(rect) ==
    rect[1] < 0 \/ rect[2] < 0 \/ rect[3] > SCREEN_WIDTH \/ rect[4] > SCREEN_HEIGHT

\* the crop box has no pixel
EmptyCrop(rect) == rect[3] <= rect[1] \/ rect[4] <= rect[2]

\* image.crop(rect) and cropped.save(out_path).  The driver does not look at the
\* box's width and height; what the image library does with a box without
\* pixels depends on its version: it writes the file (o.empty_save_ok) or it
\* raises an error of its own.
crop_and_save(hwnd, rect, o) ==
    IF EmptyCrop(rect) /\ ~o.empty_save_ok
    THEN Raise("error", "empty image", <<>>, <<>>,
               <<EvN("crop", hwnd, 0, 0, rect), Ev("save", 0, 0, 0)>>)
    ELSE Then(Ret(<<>>, <<EvN("crop", hwnd, 0, 0, rect)>>), LAMBDA cr : save_png(o))

\* _capture_window_png: val = <<left, top, right, bottom, overlay_shown>>
capture_window_png(out_path, hwnd, mode, overlay, overlay_ms, o, scr) ==
    Then(safe_mkdir(out_path, o), LAMBDA mk :
      Then(overlay_bracket(overlay, 1, overlay_ms, o), LAMBDA b1 :
        Then(capture_fullscreen_image(o, scr), LAMBDA im :
          Then(window_rect(hwnd, mode, o), LAMBDA wr :
            IF RectOutOfBounds(wr.val)
            THEN Raise("RuntimeError", "window rect out of bounds", <<>>, wr.val, <<>>)
            ELSE Then(crop_and_save(hwnd, wr.val, o), LAMBDA sv :
                   Then(overlay_bracket(overlay, 2, overlay_ms, o), LAMBDA b2 :
                     Ret(wr.val \o <<Shown(b1, b2)>>, <<>>)))))))

\* `int(getattr(args, "overlay_ms", OVERLAY_DEFAULT_MS) or OVERLAY_DEFAULT_MS)`
OverlayMsOrDefault(ms) == IF ms = 0 THEN OVERLAY_DEFAULT_MS ELSE ms

\* `bool(args.overlay) or bool(os.getenv("SFA_CAPTURE_OVERLAY", "").strip())`
OverlayEnabled(a, o) == a.overlay \/ o.env_overlay

cmd_observe(a, o, scr, wins) ==
    IF strip(a.out) = <<>> THEN error("observe", "--out is required", <<>>)
    ELSE IF strip(a.window_title) # <<>>
    THEN Then(resolve_and_activate(a, o, wins, strip(a.window_title)), LAMBDA w :
           Then(capture_window_png(strip(a.out), w.val[1], a.mode, OverlayEnabled(a, o),
                                   OverlayMsOrDefault(a.overlay_ms), o, scr),
                LAMBDA c : ok("observe", <<wins[w.val[1]].title>>,
                              c.val \o <<IF OverlayEnabled(a, o) THEN 1 ELSE 0>>, <<>>)))
    ELSE Then(capture_fullscreen_png(strip(a.out), OverlayEnabled(a, o),
                                     OverlayMsOrDefault(a.overlay_ms), o, scr),
              LAMBDA c : ok("observe", <<>>,
                            c.val \o <<IF OverlayEnabled(a, o) THEN 1 ELSE 0>>, <<>>))

\* ------------------------------------------------------------------- type
WM_CHAR == 258

\* ord(ch) for the characters that occur in the model
Ord(ch) ==
    CASE ch = "a" -> 97
      [] ch = "B" -> 66
      [] ch = " " -> 32
      [] ch = "\n" -> 10
      [] OTHER -> 63

\* `code = 13 if ch == "\n" else ord(ch)`
CharCodeMut(ch) == Ord(ch)

CharCode(ch) == IF ch = "\n" THEN 13 ELSE Ord(ch)

\* _type_text: o.fg is the desktop's answer to GetForegroundWindow
type_text(text, o) ==
    IF o.fg = 0
    THEN Raise("RuntimeError", "no foreground window to receive text", <<>>, <<>>,
               <<Ev("GetForegroundWindow", o.fg, 0, 0)>>)
    ELSE Ret(<<>>, <<Ev("GetForegroundWindow", o.fg, 0, 0)>>
                   \o [i \in 1..Len(text) |->
                         Ev("PostMessage", o.fg, WM_CHAR, CharCode(text[i]))])

cmd_type(a, o, wins) ==
    IF a.text = <<>> THEN error("type", "--text is required", <<>>)
    ELSE Then(IF strip(a.window_title) # <<>> /\ a.activate
              THEN resolve_and_activate(a, o, wins, strip(a.window_title))
              ELSE Ret(<<>>, <<>>),
              LAMBDA w : Then(type_text(a.text, o), LAMBDA t : ok("type", <<>>, <<>>, <<>>)))

\* ------------------------------------------------------------------ focus
\* value of a decimal digit, -1 for any other character
DigitVal(c) ==
    CASE c = "0" -> 0 [] c = "1" -> 1 [] c = "2" -> 2 [] c = "3" -> 3 [] c = "4" -> 4
      [] c = "5" -> 5 [] c = "6" -> 6 [] c = "7" -> 7 [] c = "8" -> 8 [] c = "9" -> 9
      [] OTHER -> -1

\* value of a non-empty string of digits, -1 when it is not one
RECURSIVE DigitsVal(_)
DigitsVal(s) ==
    IF s = <<>> THEN -1
    ELSE IF DigitVal(s[Len(s)]) < 0 THEN -1
    ELSE IF Len(s) = 1 THEN DigitVal(s[1])
    ELSE IF DigitsVal(SubSeq(s, 1, Len(s) - 1)) < 0 THEN -1
    ELSE 10 * DigitsVal(SubSeq(s, 1, Len(s) - 1)) + DigitVal(s[Len(s)])

\* int(s): <<TRUE, n>>, or <<FALSE, 0>> where int raises ValueError; blanks
\* around the number and one leading sign are accepted
ParseInt(s) ==
    Bind(strip(s), LAMBDA t :
        IF t = <<>> THEN <<FALSE, 0>>
        ELSE IF t[1] \in {"-", "+"}
        THEN IF DigitsVal(Tail(t)) < 0 THEN <<FALSE, 0>>
             ELSE <<TRUE, IF t[1] = "-" THEN -DigitsVal(Tail(t)) ELSE DigitsVal(Tail(t))>>
        ELSE IF DigitsVal(t) < 0 THEN <<FALSE, 0>>
        ELSE <<TRUE, DigitsVal(t)>>)

\* positions of "x" in raw
XsOf(raw) == { i \in 1..Len(raw) : raw[i] = "x" }

\* `w <= 0 or h <= 0`
NonPositiveSizeMut(w, h) == w < 0 \/ h < 0

NonPositiveSize(w, h) == w <= 0 \/ h <= 0

\* _parse_size: val = <<w, h>>
parse_size(value) ==
    Bind(lower(strip(value)), LAMBDA raw :
        IF Cardinality(XsOf(raw)) # 1
        THEN Raise("ValueError", "invalid size format", <<value>>, <<>>, <<>>)
        ELSE Bind(CHOOSE i \in XsOf(raw) : TRUE, LAMBDA i :
            Bind(<<ParseInt(SubSeq(raw, 1, i - 1)), ParseInt(SubSeq(raw, i + 1, Len(raw)))>>,
                 LAMBDA wh :
                    IF ~wh[1][1] \/ ~wh[2][1]
                    THEN Raise("ValueError", "invalid literal for int()", <<value>>, <<>>, <<>>)
                    ELSE IF NonPositiveSize(wh[1][2], wh[2][2])
                    THEN Raise("ValueError", "invalid size format", <<value>>, <<>>, <<>>)
                    ELSE Ret(<<wh[1][2], wh[2][2]>>, <<>>))))

\* _adjust_window_size_for_client: o.frame is what AdjustWindowRectEx adds
adjust_window_size_for_client(hwnd, client_w, client_h, o) ==
    IF client_w + o.frame[1] <= 0 \/ client_h + o.frame[2] <= 0
    THEN Raise("RuntimeError", "failed to compute window size from client size", <<>>, <<>>,
               << Ev("GetWindowLong", hwnd, 0, 0), Ev("GetWindowLong", hwnd, 0, 0),
                  Ev("AdjustWindowRectEx", hwnd, client_w, client_h) >>)
    ELSE Ret(<<client_w + o.frame[1], client_h + o.frame[2]>>,
             << Ev("GetWindowLong", hwnd, 0, 0), Ev("GetWindowLong", hwnd, 0, 0),
                Ev("AdjustWindowRectEx", hwnd, client_w, client_h) >>)

SWP_NOSIZE == 1
SWP_NOMOVE == 2
SWP_NOZORDER == 4

\* _set_window_pos: the event's rest is <<width, height, flags>>
set_window_posMut(hwnd, x, y, width, height) ==
    Ret(<<>>,
        <<EvN("SetWindowPos", hwnd,
              IF x = None THEN 0 ELSE x,
              IF y = None THEN 0 ELSE y,
              << IF width = None \/ height = None THEN 0 ELSE width,
                 IF width = None \/ height = None THEN 0 ELSE height,
                 SWP_NOZORDER
                    + (IF x = None /\ y = None THEN SWP_NOMOVE ELSE 0)
                    + (IF width = None \/ height = None THEN SWP_NOSIZE ELSE 0) >>)>>)

set_window_pos(hwnd, x, y, width, height) ==
    Ret(<<>>,
        <<EvN("SetWindowPos", hwnd,
              IF x = None \/ y = None THEN 0 ELSE x,
              IF x = None \/ y = None THEN 0 ELSE y,
              << IF width = None \/ height = None THEN 0 ELSE width,
                 IF width = None \/ height = None THEN 0 ELSE height,
                 SWP_NOZORDER
                    + (IF x = None \/ y = None THEN SWP_NOMOVE ELSE 0)
                    + (IF width = None \/ height = None THEN SWP_NOSIZE ELSE 0) >>)>>)

\* the width and height cmd_focus asks for: val = <<width, height>>, None when
\* neither --window-size nor --client-size is given
requested_size(hwnd, a, o) ==
    IF strip(a.window_size) # <<>> THEN parse_size(strip(a.window_size))
    ELSE IF strip(a.client_size) # <<>>
    THEN Then(parse_size(strip(a.client_size)), LAMBDA c :
            adjust_window_size_for_client(hwnd, c.val[1], c.val[2], o))
    ELSE Ret(<<None, None>>, <<>>)

\* `if window_size or client_size or pos_x is not None or pos_y is not None`
PlacementGiven(a) ==
    strip(a.window_size) # <<>> \/ strip(a.client_size) # <<>> \/ a.x # None \/ a.y # None

\* cmd_focus, the `if not maximize:` branch; the closing SetForegroundWindow
\* is inside try/except, so its refusal is swallowed
restore_and_place(hwnd, a, o) ==
    Then(focus_window(hwnd, FALSE, o), LAMBDA fw :
      Then(requested_size(hwnd, a, o), LAMBDA sz :
        Then(IF PlacementGiven(a)
             THEN set_window_pos(hwnd, a.x, a.y, sz.val[1], sz.val[2])
             ELSE Ret(<<>>, <<>>),
             LAMBDA sp : Ret(<<>>, <<Ev("SetForegroundWindow", hwnd, 0, 0)>>))))

\* _is_window_foreground
is_window_foreground(hwnd, o) == IF o.fg = hwnd THEN 1 ELSE 0

cmd_focus(a, o, wins) ==
    IF strip(a.title) = <<>> THEN error("focus", "--title is required", <<>>)
    ELSE Then(find_window_by_title(wins, strip(a.title)), LAMBDA f :
          Then(IF ~a.maximize THEN restore_and_place(f.val[1], a, o)
               ELSE focus_window(f.val[1], TRUE, o),
               LAMBDA p :
            Then(window_rect(f.val[1], "window", o), LAMBDA r :
              Then(window_rect(f.val[1], "client", o), LAMBDA c :
                ok("focus", <<wins[f.val[1]].title>>,
                   r.val \o c.val \o <<is_window_foreground(f.val[1], o)>>,
                   <<Ev("GetForegroundWindow", o.fg, 0, 0)>>)))))

\* ---------------------------------------------------------------- inspect
\* a check of a handler: an early `return _error(...)` or an exception ends the
\* handler, otherwise the rest of the body runs
Unless(check, rest) ==
    Bind(check, LAMBDA r : IF r.exc # "" \/ r.out # <<>> THEN r ELSE After(r, rest))

\* `abs(float(scale) - expected) > 0.5` with scale = dpi / 96 * 100 and the
\* expected percentage a whole number
ScaleMismatch(dpi, expected) ==
    Abs(100 * dpi - 96 * expected) > 48

\* the "window" entry of info: val = <<hwnd>> \o rect \o client_rect \o
\* <<is_foreground, is_maximized>>, <<>> when no --title is given
inspect_window(a, o, wins) ==
    IF strip(a.title) = <<>> THEN Ret(<<>>, <<>>)
    ELSE Then(find_window_by_title(wins, strip(a.title)), LAMBDA f :
          Then(window_rect(f.val[1], "window", o), LAMBDA r :
            Then(window_rect(f.val[1], "client", o), LAMBDA c :
              Ret(f.val \o r.val \o c.val
                    \o <<is_window_foreground(f.val[1], o), IF o.maximized THEN 1 ELSE 0>>,
                  << Ev("GetForegroundWindow", o.fg, 0, 0),
                     Ev("GetWindowPlacement", f.val[1], 0, 0) >>))))

\* the --expect-window-size / --expect-client-size check against the rectangle
\* that starts at position at of the window entry w
expect_size(expect, w, at, missing, mismatch) ==
    IF strip(expect) = <<>> THEN Ret(<<>>, <<>>)
    ELSE IF w = <<>> THEN error("inspect", missing, <<>>)
    ELSE Then(parse_size(strip(expect)), LAMBDA e :
            IF w[at + 2] - w[at] # e.val[1] \/ w[at + 3] - w[at + 1] # e.val[2]
            THEN error("inspect", mismatch,
                       <<w[at + 2] - w[at], w[at + 3] - w[at + 1], e.val[1], e.val[2]>>)
            ELSE Ret(<<>>, <<>>))

\* the --expect-scale check
expect_scale(a, o) ==
    IF a.expect_scale # None /\ ScaleMismatch(o.dpi, a.expect_scale)
    THEN error("inspect", "dpi scale mismatch", <<o.dpi, a.expect_scale>>)
    ELSE Ret(<<>>, <<>>)

\* the --expect-maximized check
expect_maximized(a, w) ==
    IF ~a.expect_maximized THEN Ret(<<>>, <<>>)
    ELSE IF w = <<>> THEN error("inspect", "window not found for maximize check", <<>>)
    ELSE IF w[11] = 0 THEN error("inspect", "window is not maximized", <<>>)
    ELSE Ret(<<>>, <<>>)

\* `(w, h) != (SCREEN_WIDTH, SCREEN_HEIGHT)` of the --strict block
StrictMismatchMut(scr) == scr[1] # SCREEN_WIDTH /\ scr[2] # SCREEN_HEIGHT

StrictMismatch(scr) == scr # <<SCREEN_WIDTH, SCREEN_HEIGHT>>

\* the --strict block
strict_checks(a, scr, w) ==
    IF ~a.strict THEN Ret(<<>>, <<>>)
    ELSE IF StrictMismatch(scr)
    THEN error("inspect", "screen size mismatch",
               <<scr[1], scr[2], SCREEN_WIDTH, SCREEN_HEIGHT>>)
    ELSE IF strip(a.title) # <<>> /\ a.expect_foreground /\ w[10] = 0
    THEN error("inspect", "window is not foreground", <<>>)
    ELSE Ret(<<>>, <<>>)

\* cmd_inspect: the ok line's nums are <<screen width, screen height, dpi>>
\* followed by the window entry
cmd_inspect(a, o, scr, wins) ==
    Then(Ret(<<>>, <<Ev("GetSystemMetrics", 0, scr[1], scr[2]),
                     Ev("GetDpiForSystem", 0, o.dpi, 0)>>), LAMBDA m :
      Then(inspect_window(a, o, wins), LAMBDA w :
        Unless(expect_scale(a, o),
          Unless(expect_size(a.expect_window_size, w.val, 2,
                             "window not found for size check", "window size mismatch"),
            Unless(expect_size(a.expect_client_size, w.val, 6,
                               "window not found for client size check",
                               "client size mismatch"),
              Unless(expect_maximized(a, w.val),
                Unless(strict_checks(a, scr, w.val),
                  ok("inspect",
                     IF w.val = <<>> THEN <<>> ELSE <<wins[w.val[1]].title>>,
                     <<scr[1], scr[2], o.dpi>> \o w.val, <<>>))))))))

\* ------------------------------------------------------------------- main
\* `args.func(args)`
Dispatch(cmd, a, o, scr, wins) ==
    CASE cmd = "observe" -> cmd_observe(a, o, scr, wins)
      [] cmd = "click" -> cmd_click(a, o, scr, wins)
      [] cmd = "diff" -> cmd_diff(a, o)
      [] cmd = "type" -> cmd_type(a, o, wins)
      [] cmd = "focus" -> cmd_focus(a, o, wins)
      [] cmd = "inspect" -> cmd_inspect(a, o, scr, wins)

\* main() once the command line is parsed: the handler's return value is the
\* exit code; an exception becomes `_error(action, str(exc))`, exit code 1
main(cmd, a, o, scr, wins) ==
    Bind(Dispatch(cmd, a, o, scr, wins), LAMBDA r :
        IF r.exc = ""
        THEN [ev |-> <<Ev("SetProcessDpiAwareness", 0, 2, 0)>> \o r.ev,
              out |-> r.out, rc |-> r.val[1]]
        ELSE [ev |-> <<Ev("SetProcessDpiAwareness", 0, 2, 0)>> \o r.ev \o <<PrintEv("error")>>,
              out |-> r.out \o <<Line("error", cmd, r.msg, r.titles, r.nums)>>,
              rc |-> 1])

\* ------------------------------------------------------------------ state
VARIABLES
    pc,         \* "ready": process started; "done": process exited
    screen,     \* live screen size <<w, h>> (GetSystemMetrics)
    windows,    \* the desktop's top-level windows in EnumWindows order
    command,    \* the sub-command (or function) invoked
    args,       \* its arguments
    oracle,     \* the desktop's answers to this invocation's native queries
    events,     \* native calls made, in order
    stdout,     \* lines printed to standard output
    exitCode,   \* process exit code (-1 while running)
    ret         \* value returned by the function under test (pure-function specs)

vars == <<pc, screen, windows, command, args, oracle, events, stdout, exitCode, ret>>

\* ------------------------------------------------------- the live desktop
T_Ed == <<"E", "d">>
T_mED == <<"m", " ", "E", "D">>
T_Web == <<"W", "e", "b">>

\* what a top-level window can look like
WindowKinds ==
    { [title |-> T_Ed, visible |-> TRUE],
      [title |-> T_mED, visible |-> TRUE],
      [title |-> T_Web, visible |-> FALSE],
      [title |-> <<>>, visible |-> TRUE] }

\* desktops of n windows; the window at position i has handle i
DesktopsOf(n) ==
    { [i \in 1..n |-> [hwnd |-> i, title |-> k[i].title, visible |-> k[i].visible]] :
        k \in [1..n -> WindowKinds] }

Desktops(max) == UNION { DesktopsOf(n) : n \in 0..max }

\* --title / --window-title values
Titles ==
    { <<>>, <<" ">>, <<"e", "d">>, <<" ", "E", "D", " ">>, <<"m">>, <<"e">>, <<"z">> }

NoOracle == [hit1 |-> 0]
NoArgs == [title |-> <<>>]

\* ------------------------------------------------- the driver's inputs
P_Black == <<0, 0, 0>>
P_Green == <<0, 30, 0>>
P_White == <<255, 255, 255>>

PixelValues == {P_Black, P_Green, P_White}

ImagesOf(sz) == { [size |-> sz, px |-> p] : p \in [1..(sz[1] * sz[2]) -> PixelValues] }

\* images of at most max pixels
Images(max) ==
    UNION { ImagesOf(sz) : sz \in { z \in (1..max) \X (1..max) : z[1] * z[2] <= max } }

BlankImage == [size |-> <<1, 1>>, px |-> <<P_Black>>]

\* the parsed argparse namespace (all sub-commands' flags, at their defaults)
DefaultArgs ==
    [x |-> None, y |-> None, rel_x |-> None, rel_y |-> None,
     window_title |-> <<>>, mode |-> "window",
     activate |-> FALSE, maximize |-> FALSE, verify_window |-> FALSE,
     out |-> <<>>, overlay |-> FALSE, overlay_ms |-> OVERLAY_DEFAULT_MS,
     a |-> <<>>, b |-> <<>>, threshold |-> 20, alpha |-> 60,
     text |-> <<>>, title |-> <<>>, strict |-> FALSE, expect_foreground |-> FALSE,
     expect_scale |-> None, expect_window_size |-> <<>>, expect_client_size |-> <<>>,
     expect_maximized |-> FALSE, window_size |-> <<>>, client_size |-> <<>>]

\* the desktop's answers: windows hit-tested by the first and second
\* WindowFromPoint, client origin of the hit window, reported window rectangle,
\* whether the foreground request is refused, which native step fails (and in
\* which overlay bracket), the SFA_CAPTURE_OVERLAY environment value, and the
\* contents of the image files --a and --b; the client rectangle, the window
\* holding the foreground, the system DPI, the frame AdjustWindowRectEx adds to
\* a client size, whether the window is maximized, and whether the imaging
\* library's PNG encoder accepts an image without pixels
DefaultOracle ==
    [hit1 |-> 0, hit2 |-> 0, org |-> <<8, 31>>, rect |-> <<0, 0, SCREEN_WIDTH, SCREEN_HEIGHT>>,
     fg_denied |-> FALSE, fault |-> "none", fault_at |-> 1, env_overlay |-> FALSE,
     imgA |-> BlankImage, imgB |-> BlankImage,
     crect |-> <<0, 0, SCREEN_WIDTH, SCREEN_HEIGHT>>, fg |-> 0, dpi |-> 96,
     frame |-> <<16, 39>>, maximized |-> FALSE, empty_save_ok |-> FALSE,
     grab_rect |-> <<0, 0, SCREEN_WIDTH, SCREEN_HEIGHT>>]

Screens == { <<SCREEN_WIDTH, SCREEN_HEIGHT>>, <<SCREEN_WIDTH, 1200>> }

DriverKinds ==
    { [title |-> T_Ed, visible |-> TRUE], [title |-> T_Web, visible |-> TRUE] }

DriverDesktops ==
    UNION { { [i \in 1..n |-> [hwnd |-> i, title |-> k[i].title, visible |-> k[i].visible]] :
                k \in [1..n -> DriverKinds] } : n \in 0..MaxDesktop }

DriverTitles == { <<>>, <<" ", "E", "D">>, <<"e">>, <<"z">> }

\* WindowFromPoint answers: none, top-level windows 1 and 2, a grandchild of
\* window 1, a child of window 2
Hits == {0, 1, 2, 111, 21}

DriverRects ==
    { <<0, 0, SCREEN_WIDTH, SCREEN_HEIGHT>>, <<100, 100, 101, 101>>,
      <<-8, -8, SCREEN_WIDTH + 8, SCREEN_HEIGHT + 8>>, <<100, 100, 100, 100>>,
      <<1900, 1000, 2000, 1100>> }

\* --x / --y pairs
XYs ==
    { <<None, None>>, <<0, None>>, <<None, 0>>, <<0, 0>>, <<1919, 1079>>,
      <<2000, 500>>, <<1920, 0>>, <<0, 1080>>, <<-1, 5>> }

\* --rel-x / --rel-y pairs, in units of 1/RelDen
RelPairs ==
    { <<0, None>>, <<None, 0>>, <<0, 0>>, <<5000, 10000>>, <<10000, 10000>>,
      <<10001, 0>>, <<0, -1>> }

\* <<--overlay, --overlay-ms>>
OverlayCombos ==
    { <<FALSE, OVERLAY_DEFAULT_MS>>, <<TRUE, OVERLAY_DEFAULT_MS>>, <<TRUE, 0>>, <<TRUE, -5>> }

\* <<--activate, --maximize>>
ActivateCombos == { <<FALSE, FALSE>>, <<TRUE, FALSE>>, <<TRUE, TRUE>> }

\* native steps of the overlay bracket that can fail, and of the capture
OverlayFaults == {"register", "create_raises", "create_null", "setattr", "show", "pump", "sleep"}
CaptureFaults == {"mkdir", "grab", "save"}
DiffFaults == {"open_a", "open_b", "mkdir", "save"}

Thresholds == {-1, 0, 17, 18, 255, 256}
Alphas == {-1, 0, 60, 100, 101}

\* <<--a, --b, --out>>
StdPaths == << <<"a">>, <<"b">>, <<"d", "/", "o">> >>
DiffPaths ==
    { << <<>>, <<"b">>, <<"o">> >>, << <<"a">>, <<" ">>, <<"o">> >>,
      << <<"a">>, <<"b">>, <<>> >>, << <<"a">>, <<"a">>, <<"o">> >> }

\* The desktop's answers an invocation can meet.  Answers a command never
\* reads stay at their default, so each family varies what one command reads.
\* absolute click: both hit-tests, the foreground request
ClickAbsOracles ==
    { [DefaultOracle EXCEPT !.hit1 = h1, !.hit2 = h2, !.fg_denied = d] :
        h1 \in Hits, h2 \in Hits, d \in BOOLEAN }

\* relative click: the hit-test, the window rectangle, the foreground request
ClickRelOracles ==
    { [DefaultOracle EXCEPT !.hit1 = h1, !.rect = rc, !.crect = rc, !.fg_denied = d] :
        h1 \in Hits, rc \in DriverRects, d \in BOOLEAN }

\* <<rectangle of the window when the screen is grabbed, rectangle when
\* _window_rect is called>>: the window moved or was resized in between
Moves ==
    { << <<100, 100, 101, 101>>, <<0, 0, SCREEN_WIDTH, SCREEN_HEIGHT>> >>,
      << <<0, 0, SCREEN_WIDTH, SCREEN_HEIGHT>>, <<100, 100, 101, 101>> >>,
      << <<100, 100, 101, 101>>, <<1900, 1000, 2000, 1100>> >> }

\* observe: the window rectangle, the foreground request, the environment
\* value, the failing native step
ObserveOracles ==
    { [DefaultOracle EXCEPT !.rect = rc, !.crect = rc, !.grab_rect = rc,
                            !.fg_denied = d, !.env_overlay = e] :
        rc \in DriverRects, d \in BOOLEAN, e \in BOOLEAN }
    \cup { [DefaultOracle EXCEPT !.rect = mv[2], !.crect = mv[2], !.grab_rect = mv[1]] :
            mv \in Moves }
    \cup { [DefaultOracle EXCEPT !.fault = f, !.fault_at = n, !.env_overlay = e] :
            f \in OverlayFaults, n \in 1..2, e \in BOOLEAN }
    \cup { [DefaultOracle EXCEPT !.fault = f] : f \in CaptureFaults }
    \cup { [DefaultOracle EXCEPT !.rect = rc, !.crect = rc, !.grab_rect = rc,
                                 !.empty_save_ok = TRUE, !.env_overlay = e] :
            rc \in {<<100, 100, 100, 100>>, <<100, 100, 50, 101>>}, e \in BOOLEAN }
    \cup { [DefaultOracle EXCEPT !.rect = <<100, 100, 50, 101>>,
                                 !.crect = <<100, 100, 50, 101>>,
                                 !.grab_rect = <<100, 100, 50, 101>>] }

\* diff: the two image files, the failing step
DiffOracles(images) ==
    { [DefaultOracle EXCEPT !.imgA = ia, !.imgB = ib] : ia \in images, ib \in images }
    \cup { [DefaultOracle EXCEPT !.imgA = ia, !.imgB = ib, !.fault = f] :
            ia \in Images(1), ib \in Images(1), f \in DiffFaults }

\* type and focus: the foreground window, the foreground request
ForegroundOracles ==
    { [DefaultOracle EXCEPT !.fg = f, !.fg_denied = d] : f \in {1, 2, 21}, d \in BOOLEAN }

\* --text values
Texts == { <<>>, <<"a">>, <<"\n">>, <<"a", "\n", "B", " ">> }

\* inspect: the DPI, the show state, the foreground window, the rectangles
InspectOracles ==
    { [DefaultOracle EXCEPT !.dpi = d, !.maximized = mx, !.fg = f, !.rect = rc[1],
                            !.crect = rc[2]] :
        d \in {96, 120}, mx \in BOOLEAN, f \in {0, 1},
        rc \in { <<DefaultOracle.rect, DefaultOracle.crect>>,
                 <<<<100, 100, 108, 106>>, <<101, 102, 109, 108>>>> } }

\* <<--strict, --expect-foreground>>
StrictCombos == { <<FALSE, FALSE>>, <<TRUE, FALSE>>, <<TRUE, TRUE>> }

\* <<--expect-window-size, --expect-client-size>>
ExpectSizes ==
    { << <<>>, <<>> >>, << <<"8", "x", "6">>, <<>> >>, << <<>>, <<"8", "x", "6">> >>,
      << <<"0", "x", "6">>, <<>> >> }

\* --expect-scale, in percent
ExpectScales == {None, 100, 125}

\* WxH strings
S_8x6 == <<"8", "x", "6">>
Sizes ==
    { <<>>, S_8x6, <<" ", "1", "2", "X", "9", " ">>, <<"8">>, <<"0", "x", "6">>,
      <<"a", "x", "6">>, <<"8", "x", "6", "x", "1">>, <<"-", "8", "x", "6">> }

\* <<--window-size, --client-size>>
SizeCombos ==
    { <<w, <<>> >> : w \in Sizes } \cup { << <<>>, c >> : c \in Sizes }
        \cup { <<S_8x6, <<"a", "x", "6">> >> }

\* focus --x / --y pairs
Positions == { <<None, None>>, <<10, None>>, <<10, 20>> }

DiffArgs(p, t, al) ==
    [DefaultArgs EXCEPT !.a = p[1], !.b = p[2], !.out = p[3], !.threshold = t, !.alpha = al]

\* ------------------------------------------------ specification: the driver
Init ==
    /\ pc = "ready"
    /\ screen \in Screens
    /\ windows \in DriverDesktops
    /\ oracle \in ClickAbsOracles \cup ClickRelOracles \cup ObserveOracles
                    \cup DiffOracles(Images(1)) \cup ForegroundOracles
                    \cup InspectOracles
    /\ command = ""
    /\ args = DefaultArgs
    /\ events = <<>>
    /\ stdout = <<>>
    /\ exitCode = -1
    /\ ret = Ret(<<>>, <<>>)

\* one run of main() with a command line argparse accepts
Invoke(cmd, a) ==
    /\ pc = "ready"
    /\ \E m \in {main(cmd, a, oracle, screen, windows)} :
           /\ events' = m.ev
           /\ stdout' = m.out
           /\ exitCode' = m.rc
    /\ command' = cmd
    /\ args' = a
    /\ pc' = "done"
    /\ UNCHANGED <<screen, windows, oracle, ret>>

\* ap.parse_args() rejects the command line (missing required flag, malformed
\* number, unknown sub-command): usage on stderr, SystemExit(2), outside the try
ArgparseError ==
    /\ pc = "ready"
    /\ oracle = DefaultOracle
    /\ \E cmd \in {"observe", "click", "type", "inspect", "focus", "diff", "unknown"} :
          command' = cmd
    /\ events' = <<Ev("SetProcessDpiAwareness", 0, 2, 0)>>
    /\ stdout' = <<>>
    /\ exitCode' = 2
    /\ pc' = "done"
    /\ UNCHANGED <<screen, windows, args, oracle, ret>>

CmdObserve ==
    /\ oracle \in ObserveOracles
    /\ \/ \E op \in { <<>>, <<" ">>, <<"o">> } :
             Invoke("observe", [DefaultArgs EXCEPT !.out = op])
       \/ \E ov \in OverlayCombos, t \in DriverTitles, c \in ActivateCombos,
             m \in {"window", "client"} :
             Invoke("observe",
                    [DefaultArgs EXCEPT !.out = <<"d", "/", "o">>, !.overlay = ov[1],
                                        !.overlay_ms = ov[2], !.window_title = t,
                                        !.activate = c[1], !.maximize = c[2], !.mode = m])

\* click with --x/--y
CmdClickAbs ==
    /\ oracle \in ClickAbsOracles
    /\ \E xy \in XYs, t \in DriverTitles, c \in ActivateCombos, v \in BOOLEAN :
          Invoke("click",
                 [DefaultArgs EXCEPT !.x = xy[1], !.y = xy[2], !.window_title = t,
                                     !.activate = c[1], !.maximize = c[2],
                                     !.verify_window = v])

\* click with --rel-x/--rel-y
CmdClickRel ==
    /\ oracle \in ClickRelOracles
    /\ \E r \in RelPairs, t \in DriverTitles, c \in ActivateCombos,
          m \in {"window", "client"} :
          Invoke("click",
                 [DefaultArgs EXCEPT !.rel_x = r[1], !.rel_y = r[2], !.window_title = t,
                                     !.activate = c[1], !.maximize = c[2], !.mode = m])

\* type; the default answers are those of a desktop with no foreground window
CmdType ==
    /\ oracle \in ForegroundOracles \cup {DefaultOracle}
    /\ \E tx \in Texts, t \in DriverTitles, c \in ActivateCombos :
          Invoke("type",
                 [DefaultArgs EXCEPT !.text = tx, !.window_title = t,
                                     !.activate = c[1], !.maximize = c[2]])

CmdInspect ==
    /\ oracle \in InspectOracles
    /\ \E t \in DriverTitles, sc \in StrictCombos, es \in ExpectScales,
          ez \in ExpectSizes, em \in BOOLEAN :
          Invoke("inspect",
                 [DefaultArgs EXCEPT !.title = t, !.strict = sc[1],
                                     !.expect_foreground = sc[2], !.expect_scale = es,
                                     !.expect_window_size = ez[1],
                                     !.expect_client_size = ez[2],
                                     !.expect_maximized = em])

CmdFocus ==
    /\ oracle \in ForegroundOracles \cup {DefaultOracle}
    /\ \E t \in DriverTitles, mx \in BOOLEAN, xy \in Positions, sz \in SizeCombos :
          Invoke("focus",
                 [DefaultArgs EXCEPT !.title = t, !.maximize = mx, !.x = xy[1], !.y = xy[2],
                                     !.window_size = sz[1], !.client_size = sz[2]])

\* diff: unusual paths are tried with one threshold and alpha
CmdDiff(images, thresholds, alphas) ==
    /\ oracle.imgA \in images /\ oracle.imgB \in images
    /\ oracle.fault \in DiffFaults \cup {"none"}
    /\ [oracle EXCEPT !.imgA = BlankImage, !.imgB = BlankImage, !.fault = "none"]
            = DefaultOracle
    /\ \/ \E t \in thresholds, al \in alphas :
             Invoke("diff", DiffArgs(StdPaths, t, al))
       \/ \E p \in DiffPaths :
             Invoke("diff", DiffArgs(p, 255, 60))

Next ==
    \/ ArgparseError
    \/ CmdObserve
    \/ CmdClickAbs
    \/ CmdClickRel
    \/ CmdDiff(Images(1), {0, 255, 256}, {60})
    \/ CmdType
    \/ CmdFocus
    \/ CmdInspect

Spec == Init /\ [][Next]_vars

\* ------------------------------------------------- specification: the diff
InitDiff ==
    /\ pc = "ready"
    /\ screen = <<SCREEN_WIDTH, SCREEN_HEIGHT>>
    /\ windows = <<>>
    /\ oracle \in DiffOracles(Images(MaxPixels))
    /\ command = ""
    /\ args = DefaultArgs
    /\ events = <<>>
    /\ stdout = <<>>
    /\ exitCode = -1
    /\ ret = Ret(<<>>, <<>>)

NextDiff == CmdDiff(Images(MaxPixels), Thresholds, Alphas)

SpecDiff == InitDiff /\ [][NextDiff]_vars

\* ------------------------------------------- specification: window resolution
InitResolve ==
    /\ pc = "ready"
    /\ screen = <<SCREEN_WIDTH, SCREEN_HEIGHT>>
    /\ windows \in Desktops(MaxWindows)
    /\ command = "find_window_by_title"
    /\ args = NoArgs
    /\ oracle = NoOracle
    /\ events = <<>>
    /\ stdout = <<>>
    /\ exitCode = -1
    /\ ret = Ret(<<>>, <<>>)

Resolve ==
    /\ pc = "ready"
    /\ \E t \in Titles :
        /\ args' = [title |-> t]
        /\ ret' = find_window_by_title(windows, t)
    /\ events' = ret'.ev
    /\ pc' = "done"
    /\ UNCHANGED <<screen, windows, command, oracle, stdout, exitCode>>

SpecResolve == InitResolve /\ [][Resolve]_vars

\* ------------------------------------------------- specification: geometry
Rects ==
    { <<l, t, l + w, t + h>> : l \in {-3, 0, 7}, t \in {-2, 0, 5},
                               w \in 0..MaxSide, h \in 0..MaxSide }

\* relative coordinates in units of 1/RelDen
Rels == { -1, 0, 1, 2500, 3333, 5000, 7500, 9995, 9999, 10000, 10001 }

InitGeom ==
    /\ pc = "ready"
    /\ screen = <<SCREEN_WIDTH, SCREEN_HEIGHT>>
    /\ windows = <<>>
    /\ command = "rel_to_abs"
    /\ \E rect \in Rects : args = [rel_x |-> 0, rel_y |-> 0, rect |-> rect]
    /\ oracle = NoOracle
    /\ events = <<>>
    /\ stdout = <<>>
    /\ exitCode = -1
    /\ ret = Ret(<<>>, <<>>)

RelToAbs ==
    /\ pc = "ready"
    /\ \E rx \in Rels, ry \in Rels :
        /\ args' = [args EXCEPT !.rel_x = rx, !.rel_y = ry]
        /\ ret' = rel_to_abs(rx, ry, args.rect)
    /\ pc' = "done"
    /\ UNCHANGED <<screen, windows, command, oracle, events, stdout, exitCode>>

SpecGeom == InitGeom /\ [][RelToAbs]_vars

\* ------------------------------------------------------------ claims C6, C7
RelIn(rel) == 0 <= rel /\ rel <= 1000 * RelDen

\* C6: for every rectangle with width >= 1 and height >= 1 and every relative
\* pair in [0, 1000], the mapping returns a point with left <= x <= right-1 and
\* top <= y <= bottom-1; relative 0 maps to the left/top edge and relative 1000
\* to right-1/bottom-1 (the same edge when the side is 1).
C6_RelToAbsInside ==
    (pc = "done" /\ command = "rel_to_abs"
        /\ args.rect[3] - args.rect[1] >= 1 /\ args.rect[4] - args.rect[2] >= 1
        /\ RelIn(args.rel_x) /\ RelIn(args.rel_y))
    => /\ ret.exc = ""
       /\ args.rect[1] <= ret.val[1] /\ ret.val[1] <= args.rect[3] - 1
       /\ args.rect[2] <= ret.val[2] /\ ret.val[2] <= args.rect[4] - 1
       /\ (args.rel_x = 0 => ret.val[1] = args.rect[1])
       /\ (args.rel_y = 0 => ret.val[2] = args.rect[2])
       /\ (args.rel_x = 1000 * RelDen => ret.val[1] = args.rect[3] - 1)
       /\ (args.rel_y = 1000 * RelDen => ret.val[2] = args.rect[4] - 1)

\* relative (1000, 1000) on a rectangle wider than one pixel lands on right-1
C6_Witness ==
    /\ pc = "done" /\ command = "rel_to_abs"
    /\ args.rel_x = 1000 * RelDen /\ args.rel_y = 1000 * RelDen
    /\ args.rect[3] - args.rect[1] = MaxSide /\ args.rect[4] - args.rect[2] = 1
    /\ ret.exc = ""
    /\ ret.val = <<args.rect[3] - 1, args.rect[2]>>

\* the windows the resolution is over: visible, titled, containing the needle
MatchSet(wins, title) ==
    { i \in 1..Len(wins) :
        /\ wins[i].visible
        /\ wins[i].title # <<>>
        /\ Contains(lower(wins[i].title), lower(strip(title))) }


\* C7: over the visible titled windows, for a non-empty title substring
\* (surrounding blanks trimmed) matched case-insensitively: exactly one match
\* returns that window; zero matches fails as not-found; n >= 2 matches fails as
\* ambiguous listing min(n, 5) of the matching titles; in neither failure case
\* is a window returned, and nothing but the enumeration touches the desktop.
C7_Resolution ==
    (pc = "done" /\ command = "find_window_by_title" /\ strip(args.title) # <<>>)
    => LET M == MatchSet(windows, args.title)
           n == Cardinality(M)
       IN  /\ n = 1 => (ret.exc = "" /\ \E i \in M : ret.val = <<windows[i].hwnd>>)
           /\ n = 0 => (ret.exc # "" /\ ret.msg = "no window title contains" /\ ret.val = <<>>)
           /\ n >= 2 =>
                /\ ret.exc # "" /\ ret.msg = "multiple windows matched" /\ ret.val = <<>>
                /\ Len(ret.titles) = Min(n, 5)
                /\ Len(ret.titles) >= 1 /\ Len(ret.titles) <= 5
                /\ \A k \in 1..Len(ret.titles) : \E i \in M : windows[i].title = ret.titles[k]
           /\ \A k \in 1..Len(events) : events[k].call = "EnumWindows"

\* six windows match and five titles are listed
C7_Witness ==
    /\ pc = "done" /\ command = "find_window_by_title"
    /\ Cardinality(MatchSet(windows, args.title)) > 5
    /\ ret.msg = "multiple windows matched"
    /\ Len(ret.titles) = 5


\* ----------------------------------------------------- claims C1..C5, C8..C10
\* positions in the run's call log of the calls of the given name
Calls(name) == { i \in 1..Len(events) : events[i].call = name }

\* a finished click with --x and --y (no relative coordinate given)
AbsClick ==
    /\ pc = "done" /\ command = "click" /\ exitCode # 2
    /\ args.rel_x = None /\ args.rel_y = None
    /\ args.x # None /\ args.y # None

\* a finished click with --rel-x and --rel-y
RelClick ==
    /\ pc = "done" /\ command = "click" /\ exitCode # 2
    /\ args.rel_x # None /\ args.rel_y # None

\* the title names exactly one window of the desktop
Resolved == Cardinality(MatchSet(windows, args.window_title)) = 1

\* that window's handle
Target == windows[CHOOSE i \in MatchSet(windows, args.window_title) : TRUE].hwnd

\* the run's first hit-test answered with a window
FirstHit == events[CHOOSE i \in Calls("WindowFromPoint") :
                     \A j \in Calls("WindowFromPoint") : i <= j].hwnd

\* the single result line reports a failure, exit code 1
FailedRun ==
    Len(stdout) = 1 /\ stdout[1].status = "error" /\ exitCode = 1

\* C1: every invocation, whatever its arguments (missing and malformed ones
\* included) and whichever internal step throws, emits exactly one result line
\* and exits with code 0 when the line's status is ok and 1 when it is error.
C1_OneLineMatchingExit ==
    (pc = "done"
        /\ command \in {"observe", "click", "type", "inspect", "focus", "diff", "unknown"})
    => /\ Len(stdout) = 1
       /\ stdout[1].status \in {"ok", "error"}
       /\ exitCode = (IF stdout[1].status = "ok" THEN 0 ELSE 1)

\* C2: in a relative click, when the top-level ancestor of the window hit-tested
\* at the mapped point is not the window resolved from the title, the click
\* fails and no pointer-move, button-down or button-up message is posted.
C2_RelMismatchPostsNothing ==
    (RelClick /\ Resolved /\ Calls("WindowFromPoint") # {}
        /\ FirstHit # 0 /\ root_hwnd(FirstHit) # Target)
    => FailedRun /\ Calls("PostMessage") = {}

\* a child of another top-level window sits at the mapped point: the click is
\* refused with the mismatch message and nothing was posted
C2_Witness ==
    /\ RelClick /\ Resolved /\ Calls("WindowFromPoint") # {}
    /\ FirstHit = 21 /\ Target = 1
    /\ FailedRun
    /\ stdout[1].message = "target window mismatch at point (window may be unfocused or covered)"
    /\ Calls("PostMessage") = {}

\* C3: in an absolute click with --verify-window, pointer messages are posted
\* only if the top-level ancestor of the window hit-tested at (x, y) is the
\* intended target window, otherwise the click fails and posts nothing; without
\* the flag no ancestor check is made.
C3_VerifyWindowAncestorCheck ==
    AbsClick
    => /\ (args.verify_window /\ Calls("PostMessage") # {})
            => (Resolved /\ root_hwnd(FirstHit) = Target)
       /\ (args.verify_window /\ Resolved /\ Calls("WindowFromPoint") # {}
                /\ FirstHit # 0 /\ root_hwnd(FirstHit) # Target)
            => (FailedRun /\ Calls("PostMessage") = {})
       /\ (~args.verify_window => Cardinality(Calls("WindowFromPoint")) <= 1)

\* C4: an absolute click with x outside 0..1919 or y outside 0..1079 fails
\* before any hit-test of the desktop and without posting a message, for every
\* combination of --window-title, --activate, --maximize and --verify-window.
C4_ValidationBeforeHitTest ==
    (AbsClick /\ ~validate_xy_ok(args.x, args.y))
    => /\ FailedRun
       /\ Calls("WindowFromPoint") = {}
       /\ Calls("PostMessage") = {}

\* C5: on every exit path of an observe with the overlay enabled, every overlay
\* window the run created has been destroyed before the result is reported.
C5_OverlayDestroyedBeforeReport ==
    (pc = "done" /\ command = "observe" /\ exitCode # 2
        /\ (args.overlay \/ oracle.env_overlay))
    => \A i \in Calls("CreateWindowEx") :
          events[i].hwnd # 0
          => \E j \in Calls("DestroyWindow") :
                /\ i < j
                /\ events[j].hwnd = events[i].hwnd
                /\ \A k \in Calls("print") : j < k

\* a diff whose paths, threshold and alpha the command accepts, on readable
\* files and a writable output
DiffRuns ==
    /\ pc = "done" /\ command = "diff" /\ exitCode # 2
    /\ strip(args.a) # <<>> /\ strip(args.b) # <<>> /\ strip(args.out) # <<>>
    /\ args.threshold \in 0..255
    /\ args.alpha \in 0..AlphaDen
    /\ oracle.fault = "none"

\* C8: the diff of an image against itself succeeds with flagged-pixel count 0
\* and ratio 0.0 and reports the image's own dimensions, for every threshold in
\* 0..255 and every alpha in [0, 1].
C8_SelfDiffIsZero ==
    (DiffRuns /\ oracle.imgA = oracle.imgB)
    => /\ Len(stdout) = 1 /\ stdout[1].status = "ok" /\ exitCode = 0
       /\ stdout[1].nums[1] = 0
       /\ stdout[1].nums[2] = 0 /\ stdout[1].nums[3] > 0
       /\ <<stdout[1].nums[4], stdout[1].nums[5]>> = oracle.imgA.size

\* a two-pixel image with a non-black pixel against itself, threshold 0
C8_Witness ==
    /\ DiffRuns /\ oracle.imgA = oracle.imgB
    /\ Len(oracle.imgA.px) = 2 /\ oracle.imgA.px[2] = P_White
    /\ args.threshold = 0 /\ args.alpha = AlphaDen
    /\ stdout[1].status = "ok"
    /\ stdout[1].nums[1] = 0
    /\ Calls("save") # {}

\* C9: the diff of two images of different pixel dimensions always fails, before
\* any metric is computed and before the output image or its directory is
\* written.
C9_SizeMismatchFailsFirst ==
    (pc = "done" /\ command = "diff" /\ exitCode # 2
        /\ oracle.imgA.size # oracle.imgB.size)
    => /\ FailedRun
       /\ Calls("ImageChops.difference") = {}
       /\ Calls("histogram") = {}
       /\ Calls("Image.composite") = {}
       /\ Calls("makedirs") = {}
       /\ Calls("save") = {}

\* both files were opened, they differ in height only, and the run reports the
\* size mismatch
C9_Witness ==
    /\ DiffRuns
    /\ oracle.imgA.size[1] = oracle.imgB.size[1]
    /\ oracle.imgA.size[2] # oracle.imgB.size[2]
    /\ Cardinality(Calls("Image.open")) = 2
    /\ FailedRun
    /\ stdout[1].message = "image size mismatch"
    /\ Calls("save") = {}

\* C10: for every caller-supplied threshold t in 0..255, t = 0 included, and two
\* images of the same size, the flagged-pixel count is the number of pixels
\* whose brightness difference exceeds t.
C10_CountExceedsCallerThreshold ==
    (DiffRuns /\ oracle.imgA.size = oracle.imgB.size)
    => /\ Len(stdout) = 1 /\ stdout[1].status = "ok"
       /\ stdout[1].nums[1] =
            Cardinality({ i \in 1..Len(oracle.imgA.px) :
                            PixelDiffL(oracle.imgA.px[i], oracle.imgB.px[i]) > args.threshold })

\* ------------------------------------------------------------ claims C11..C20
\* a finished run of the given command that argparse accepted
Ran(cmd) == pc = "done" /\ command = cmd /\ exitCode # 2

\* the exit code the same invocation has on a desktop that grants the
\* foreground request
ExitCodeIfGranted ==
    main(command, args, [oracle EXCEPT !.fg_denied = FALSE], screen, windows).rc

\* C11: a foreground request the OS denies is never reported as failure: focus,
\* and observe, click and type with --activate, still end with a success
\* result and exit code 0 when the window resolved and every other step
\* succeeded.
C11_ForegroundDenialNotReported ==
    (pc = "done" /\ command \in {"observe", "click", "type", "focus"} /\ exitCode # 2
        /\ oracle.fg_denied /\ ExitCodeIfGranted = 0)
    => (Len(stdout) = 1 /\ stdout[1].status = "ok" /\ exitCode = 0)

\* the given title names exactly one window of the desktop
ResolvedTitle(t) == Cardinality(MatchSet(windows, t)) = 1

\* inspect was given no expectation flag
NoExpectations ==
    /\ args.expect_scale = None /\ ~args.expect_maximized
    /\ strip(args.expect_window_size) = <<>> /\ strip(args.expect_client_size) = <<>>

\* the result line is the screen-size failure naming the live and the expected size
ScreenMismatchReported ==
    /\ FailedRun
    /\ stdout[1].message = "screen size mismatch"
    /\ stdout[1].nums = <<screen[1], screen[2], SCREEN_WIDTH, SCREEN_HEIGHT>>

\* inspect without title, --strict or expectation flag succeeds and reports the
\* live screen size and the DPI
PlainInspectReports ==
    (Ran("inspect") /\ strip(args.title) = <<>> /\ ~args.strict /\ NoExpectations)
    => /\ Len(stdout) = 1 /\ stdout[1].status = "ok" /\ exitCode = 0
       /\ stdout[1].nums = <<screen[1], screen[2], oracle.dpi>>

BadSize(value) == strip(value) # <<>> /\ parse_size(strip(value)).exc # ""

\* the finished run was given an invalid argument: an absolute coordinate
\* outside the screen, a relative coordinate outside [0, 1000], a malformed or
\* non-positive WxH size, a threshold or alpha out of range
InvalidArgument ==
    \/ AbsClick /\ ~validate_xy_ok(args.x, args.y)
    \/ RelClick /\ (~validate_rel_ok(args.rel_x) \/ ~validate_rel_ok(args.rel_y))
    \/ Ran("focus") /\ (BadSize(args.window_size) \/ BadSize(args.client_size))
    \/ Ran("inspect")
         /\ (BadSize(args.expect_window_size) \/ BadSize(args.expect_client_size))
    \/ Ran("diff")
         /\ (args.threshold \notin 0..255 \/ args.alpha \notin 0..AlphaDen)

\* native calls that look windows up or change the desktop
DesktopCalls ==
    Calls("EnumWindows") \cup Calls("ShowWindow") \cup Calls("SetForegroundWindow")
        \cup Calls("SetWindowPos") \cup Calls("PostMessage")

\* C13: all argument validation happens before any native call: with an invalid
\* argument the operation fails without a window lookup and without a
\* desktop-changing native call (restore/maximize, foreground request,
\* move/resize, message post).
C13_ValidationBeforeNativeCalls ==
    InvalidArgument => (FailedRun /\ DesktopCalls = {})

\* the overlay window created at position c of the call log is shown, kept for
\* the dwell (when the dwell is positive) and destroyed at position d
Bracket(c, d) ==
    /\ c < d
    /\ events[c].call = "CreateWindowEx" /\ events[d].call = "DestroyWindow"
    /\ events[c].hwnd # 0 /\ events[d].hwnd = events[c].hwnd
    /\ \E s \in Calls("ShowWindow") : c < s /\ s < d /\ events[s].hwnd = events[c].hwnd
    /\ OverlayMsOrDefault(args.overlay_ms) > 0
         => \E z \in Calls("sleep") : c < z /\ z < d

\* two overlay windows, one created and destroyed before the only pixel grab,
\* one created and destroyed after it
TwoBracketsAroundGrab ==
    /\ Cardinality(Calls("CreateWindowEx")) = 2
    /\ Cardinality(Calls("DestroyWindow")) = 2
    /\ Cardinality(Calls("BitBlt")) = 1
    /\ \E c1, c2 \in Calls("CreateWindowEx"), d1, d2 \in Calls("DestroyWindow"),
          g \in Calls("BitBlt") :
          /\ Bracket(c1, d1) /\ d1 < g /\ g < c2 /\ Bracket(c2, d2)
          /\ events[c1].hwnd # events[c2].hwnd

\* without --overlay and without SFA_CAPTURE_OVERLAY no overlay window is created
NoOverlayWhenDisabled ==
    (Ran("observe") /\ ~OverlayEnabled(args, oracle)) => Calls("CreateWindowEx") = {}

ClickPostedAt(h) ==
    /\ h + 4 <= Len(events)
    /\ events[h].call = "WindowFromPoint"
    /\ \A j \in Calls("WindowFromPoint") : j <= h
    /\ events[h + 1].call = "ScreenToClient" /\ events[h + 1].hwnd = events[h].hwnd
    /\ Calls("PostMessage") = {h + 2, h + 3, h + 4}
    /\ <<events[h + 2].x, events[h + 3].x, events[h + 4].x>>
         = <<WM_MOUSEMOVE, WM_LBUTTONDOWN, WM_LBUTTONUP>>
    /\ \A k \in {h + 2, h + 3, h + 4} :
          /\ events[k].hwnd = events[h].hwnd
          /\ events[k].y = lparam_from_client_xy(events[h + 1].x - oracle.org[1],
                                                 events[h + 1].y - oracle.org[2])

\* C15: every click that posts input posts exactly three messages, pointer-move,
\* left-button-down, left-button-up in that order, all to the window hit-tested
\* at the point (not its top-level ancestor) and all with the same packed
\* client-coordinate parameter; the calls are PostMessage calls.
C15_ThreeMessagesInOrder ==
    (Ran("click") /\ Calls("PostMessage") # {})
    => \E h \in Calls("WindowFromPoint") : ClickPostedAt(h)

\* an absolute click at the screen's last pixel, on a grandchild window
C15_Witness ==
    /\ AbsClick /\ exitCode = 0
    /\ args.x = 1919 /\ args.y = 1079
    /\ \E h \in Calls("WindowFromPoint") :
          /\ ClickPostedAt(h)
          /\ events[h].hwnd = 111
          /\ events[h + 2].y = (1079 - oracle.org[2]) * 65536 + (1919 - oracle.org[1])

\* the code type posts for the i-th character of the text
ExpectedCode(i) == IF args.text[i] = "\n" THEN 13 ELSE Ord(args.text[i])

\* the foreground is read once, at position g of the call log, and the messages
\* of the text's characters follow it in string order
TypedAfter(g) ==
    /\ Calls("GetForegroundWindow") = {g}
    /\ events[g].hwnd = oracle.fg
    /\ Calls("PostMessage") = { g + i : i \in 1..Len(args.text) }
    /\ \A i \in 1..Len(args.text) :
          /\ events[g + i].hwnd = events[g].hwnd
          /\ events[g + i].x = WM_CHAR
          /\ events[g + i].y = ExpectedCode(i)

\* C16: a successful type of a text of n characters posts exactly n character
\* messages in string order to the window that held the foreground when posting
\* began, read once, a newline as code 13 and any other character as its code
\* point; with an empty text or no foreground window type fails, and a failed
\* type posts nothing.
C16_OneMessagePerCharacter ==
    Ran("type")
    => /\ exitCode \in {0, 1}
       /\ exitCode = 0 => /\ args.text # <<>> /\ oracle.fg # 0
                          /\ \E g \in 1..Len(events) : TypedAfter(g)
       /\ (args.text = <<>> \/ oracle.fg = 0) => exitCode = 1
       /\ exitCode = 1 => Calls("PostMessage") = {}

\* four characters with a newline typed after activating window 1 by title while
\* window 21 holds the foreground
C16_Witness ==
    /\ Ran("type") /\ exitCode = 0
    /\ Len(args.text) = 4 /\ args.text[2] = "\n"
    /\ args.activate /\ Resolved /\ Target = 1 /\ oracle.fg = 21
    /\ \E g \in 1..Len(events) : TypedAfter(g) /\ events[g + 2].y = 13

\* positions of the calls of a run that change a window: show-state, placement
\* and foreground requests
WindowActions ==
    Calls("ShowWindow") \cup Calls("SetWindowPos") \cup Calls("SetForegroundWindow")

\* focus was given both --x and --y / a window or client size
MoveGiven == args.x # None /\ args.y # None
SizeGiven == strip(args.window_size) # <<>> \/ strip(args.client_size) # <<>>

\* the placement call at position p moves only when both coordinates were given
\* and resizes only when a size was given
PlacesAsGiven(p) ==
    /\ events[p].rest[3] = SWP_NOZORDER + (IF MoveGiven THEN 0 ELSE SWP_NOMOVE)
                                        + (IF SizeGiven THEN 0 ELSE SWP_NOSIZE)
    /\ <<events[p].x, events[p].y>> = IF MoveGiven THEN <<args.x, args.y>> ELSE <<0, 0>>
    /\ ~SizeGiven => <<events[p].rest[1], events[p].rest[2]>> = <<0, 0>>

\* focus without --maximize: the first window-changing call restores, every
\* placement follows it, the last window-changing call requests the foreground;
\* a successful run places at most once, and only when a size or coordinate
\* was given
RestorePlaceForeground ==
    \E r \in Calls("ShowWindow") :
       /\ Calls("ShowWindow") = {r} /\ events[r].x = SW_RESTORE
       /\ \A i \in WindowActions : r <= i
       /\ \E f \in Calls("SetForegroundWindow") : \A i \in WindowActions : i <= f
       /\ \A p \in Calls("SetWindowPos") : PlacesAsGiven(p)
       /\ Cardinality(Calls("SetWindowPos")) <= 1
       /\ (Calls("SetWindowPos") # {}) => (SizeGiven \/ args.x # None \/ args.y # None)
       /\ (exitCode = 0 /\ (SizeGiven \/ MoveGiven)) => Calls("SetWindowPos") # {}

\* focus with --maximize: the maximized show-state, then the foreground request,
\* and nothing else changes the window
MaximizeForeground ==
    \E m \in Calls("ShowWindow") :
       /\ events[m].x = SW_MAXIMIZE
       /\ events[m + 1].call = "SetForegroundWindow"
       /\ WindowActions = {m, m + 1}

\* C17: a focus that reaches its window restores it first when --maximize is
\* absent, then applies the size and/or position (only when one was given, moving
\* only with both --x and --y and resizing only with a size), and its last
\* window-changing call requests the foreground; with --maximize it requests only
\* the maximized show-state and the foreground and applies no size or position.
C17_RestoreThenPlaceThenForeground ==
    (Ran("focus") /\ WindowActions # {})
    => IF args.maximize THEN MaximizeForeground ELSE RestorePlaceForeground

\* a focus that moves to (10, 20) and resizes to 8 by 6
C17_Witness ==
    /\ Ran("focus") /\ exitCode = 0 /\ ~args.maximize
    /\ args.x = 10 /\ args.y = 20 /\ args.window_size = S_8x6
    /\ RestorePlaceForeground
    /\ \E p \in Calls("SetWindowPos") :
          /\ events[p].rest = <<8, 6, SWP_NOZORDER>>
          /\ events[p - 1].call = "SetForegroundWindow"
          /\ events[p + 1].call = "SetForegroundWindow"

\* a finished observe of a window that read the window's rectangle
WindowObserveWithRect ==
    /\ Ran("observe") /\ strip(args.window_title) # <<>>
    /\ Calls("DwmGetWindowAttribute") \cup Calls("GetClientRect") # {}

\* the rectangle the observe crops to
UsedRect == IF args.mode = "window" THEN oracle.rect ELSE oracle.crect

\* 0 <= left < right <= SCREEN_WIDTH and 0 <= top < bottom <= SCREEN_HEIGHT
ProperRect(rect) ==
    /\ 0 <= rect[1] /\ rect[1] < rect[3] /\ rect[3] <= SCREEN_WIDTH
    /\ 0 <= rect[2] /\ rect[2] < rect[4] /\ rect[4] <= SCREEN_HEIGHT

\* C18: a window observe succeeds and writes its image only if the resolved
\* rectangle lies inside the screen with positive width and height; any other
\* rectangle makes it fail with the out-of-bounds failure and no image file is
\* written.
C18_CropNeedsProperRect ==
    WindowObserveWithRect
    => /\ exitCode = 0 => ProperRect(UsedRect)
       /\ ~ProperRect(UsedRect)
            => /\ FailedRun /\ stdout[1].message = "window rect out of bounds"
               /\ Calls("save") = {}

\* positions of the calls that show an overlay, activate a window, grab pixels,
\* hit-test a point or post a message
Interactions ==
    { i \in 1..Len(events) :
        events[i].call \in {"RegisterClass", "CreateWindowEx", "ShowWindow",
                            "SetForegroundWindow", "GetWindowDC", "BitBlt",
                            "WindowFromPoint", "PostMessage"} }

\* the live screen size was read and disagrees with the fixed one
ScreenMismatchSeen ==
    Calls("GetSystemMetrics") # {} /\ screen # <<SCREEN_WIDTH, SCREEN_HEIGHT>>

\* C19: every observe and every absolute-coordinate click reads the live screen
\* size before any overlay display, pixel grab or hit-test of that operation;
\* when the size is not 1920x1080 the run fails with the screen-size-mismatch
\* message and neither grabs pixels, posts a message nor writes the output file.
C19_ScreenCheckFirst ==
    (Ran("observe") \/ AbsClick)
    => /\ \A i \in Interactions : \E g \in Calls("GetSystemMetrics") : g < i
       /\ ScreenMismatchSeen
            => /\ FailedRun /\ stdout[1].message = "screen size mismatch"
               /\ Calls("BitBlt") \cup Calls("PostMessage") \cup Calls("save") = {}

\* ------------------------------------------ the pre-execution gate (hook)
\* skills/microloop/scripts/preflight_hook.py: one run of the hook reads the
\* pending tool call from standard input, may run `python dev_driver.py inspect`
\* as a child process, prints one line and exits.
K_dev_driver == <<"d", "e", "v", "_", "d", "r", "i", "v", "e", "r">>
K_dev_driver_py == K_dev_driver \o <<".", "p", "y">>
K_claude_microloop ==
    <<"c", "l", "a", "u", "d", "e", "-", "m", "i", "c", "r", "o", "l", "o", "o", "p">>

\* is_dev_driver_command
is_dev_driver_command(cmd) ==
    \E kw \in {K_dev_driver, K_dev_driver_py, K_claude_microloop} :
        Contains(lower(cmd), kw)

\* what subprocess.run returned: the exit code, what kind of text standard
\* output holds ("object": a JSON object, "json": other JSON, "text": not JSON)
\* and, for an object, the driver's line
Completed(returncode, kind, lines) ==
    [exc |-> "", returncode |-> returncode, kind |-> kind, lines |-> lines]

\* subprocess.run(["python", driver, "inspect"], timeout=5): env.run says how
\* the child process goes; when it runs to its end it is the driver's main()
\* with no flags on the live screen
subprocess_run(env, scr) ==
    CASE env.run = "timeout" -> [Completed(0, "text", <<>>) EXCEPT !.exc = "TimeoutExpired"]
      [] env.run = "no_python" -> [Completed(0, "text", <<>>) EXCEPT !.exc = "FileNotFoundError"]
      [] env.run = "crash" -> Completed(1, "text", <<>>)
      [] env.run = "garbled" -> Completed(0, "text", <<>>)
      [] env.run = "not_object" -> Completed(0, "json", <<>>)
      [] env.run = "exits" ->
            Bind(main("inspect", DefaultArgs, env.desktop, scr, <<>>),
                 LAMBDA m : Completed(m.rc, "object", m.out))

\* the result of run_preflight_check: (passed, message); nums are the numbers
\* the message names
Checked(passed, message, nums, ev) ==
    [passed |-> passed, message |-> message, nums |-> nums, ev |-> ev]

\* info.get("screen", {}) of the driver's inspect line: <<width, height>>
ReportedScreen(line) == <<line.nums[1], line.nums[2]>>

\* the body of run_preflight_check's try block, after subprocess.run returned
check_result(result) ==
    IF result.exc = "TimeoutExpired"
    THEN Checked(TRUE, "preflight timeout, allowing command", <<>>, <<>>)
    ELSE IF result.exc # ""
    THEN Checked(TRUE, "preflight error", <<>>, <<>>)
    ELSE IF result.returncode # 0
    THEN Checked(FALSE, "inspect failed", <<>>, <<>>)
    ELSE IF result.kind = "text"
    THEN Checked(TRUE, "preflight check passed", <<>>, <<>>)
    ELSE IF result.kind = "json"
    THEN Checked(TRUE, "preflight error", <<>>, <<>>)
    ELSE IF ReportedScreen(result.lines[1]) # <<1920, 1080>>
    THEN Checked(FALSE, "screen size mismatch", ReportedScreen(result.lines[1]), <<>>)
    ELSE Checked(TRUE, "preflight check passed", <<>>, <<>>)

\* run_preflight_check
run_preflight_check(env, scr) ==
    IF ~env.driver_exists
    THEN Checked(TRUE, "dev_driver not found, skipping preflight", <<>>,
                 <<Ev("exists", 0, 0, 0)>>)
    ELSE Bind(subprocess_run(env, scr), LAMBDA result :
            [check_result(result) EXCEPT
                !.ev = <<Ev("exists", 0, 1, 0), Ev("subprocess.run", 0, 0, 0)>>])

\* an exit of the hook: the printed lines and the exit code
HookExit(ev, out, rc) == [ev |-> ev, out |-> out, rc |-> rc]

\* an exception nothing catches: traceback on standard error, exit code 1
Uncaught(ev) == HookExit(ev, <<>>, 1)

\* main() of the hook from `if not is_dev_driver_command(command)` on
gate(cmd, env, scr) ==
    IF ~is_dev_driver_command(cmd)
    THEN HookExit(<<>>, <<Line("ok", "", "not a dev_driver command", <<>>, <<>>)>>, 0)
    ELSE Bind(run_preflight_check(env, scr), LAMBDA c :
            IF c.passed
            THEN HookExit(c.ev, <<Line("ok", "", c.message, <<>>, c.nums)>>, 0)
            ELSE HookExit(c.ev, <<Line("error", "blocked", c.message, <<>>, c.nums)>>, 2))

\* main() of the hook.  inp.json: standard input is not JSON ("invalid"), a
\* JSON value that is no object ("value") or an object; inp.tool_input and
\* inp.cmd_kind: the key is absent, null or of the expected type
preflight_main(inp, env, scr) ==
    IF inp.json = "invalid"
    THEN HookExit(<<>>, <<Line("ok", "", "no input to parse", <<>>, <<>>)>>, 0)
    ELSE IF inp.json # "object" THEN Uncaught(<<>>)
    ELSE IF inp.tool_input = "absent" THEN gate(<<>>, env, scr)
    ELSE IF inp.tool_input # "object" THEN Uncaught(<<>>)
    ELSE IF inp.cmd_kind = "absent" THEN gate(<<>>, env, scr)
    ELSE IF inp.cmd_kind # "string" THEN Uncaught(<<>>)
    ELSE gate(inp.cmd, env, scr)

\* ------------------------------------------------ specification: the gate
HookInput(json, tool_input, cmd_kind, cmd) ==
    [json |-> json, tool_input |-> tool_input, cmd_kind |-> cmd_kind, cmd |-> cmd]

\* pending commands
HookCommands ==
    { <<>>, <<"l", "s">>, <<"d", "e", "v", "-", "d", "r", "i", "v", "e", "r">>,
      <<"p", "y", " ">> \o K_dev_driver_py \o <<" ", "c", "l", "i", "c", "k">>,
      <<"D", "E", "v", "_", "d", "r", "i", "v", "e", "r">>,
      <<"c", "d", " ", ".", "/">> \o K_claude_microloop }

HookInputs ==
    { HookInput("invalid", "absent", "absent", <<>>),
      HookInput("value", "absent", "absent", <<>>),
      HookInput("object", "absent", "absent", <<>>),
      HookInput("object", "null", "absent", <<>>),
      HookInput("object", "object", "absent", <<>>),
      HookInput("object", "object", "null", <<>>) }
    \cup { HookInput("object", "object", "string", c) : c \in HookCommands }

HookRuns == {"exits", "timeout", "no_python", "crash", "garbled", "not_object"}

HookEnvs ==
    { [driver_exists |-> e, run |-> r, desktop |-> [DefaultOracle EXCEPT !.dpi = d]] :
        e \in BOOLEAN, r \in HookRuns, d \in {96, 120} }

HookScreens ==
    { <<SCREEN_WIDTH, SCREEN_HEIGHT>>, <<SCREEN_WIDTH, 1200>>, <<1280, SCREEN_HEIGHT>>,
      <<SCREEN_HEIGHT, SCREEN_WIDTH>> }

InitHook ==
    /\ pc = "ready"
    /\ screen \in HookScreens
    /\ windows = <<>>
    /\ command = ""
    /\ args = HookInput("invalid", "absent", "absent", <<>>)
    /\ oracle \in HookEnvs
    /\ events = <<>>
    /\ stdout = <<>>
    /\ exitCode = -1
    /\ ret = Ret(<<>>, <<>>)

PreflightHook ==
    /\ pc = "ready"
    /\ \E inp \in HookInputs :
          /\ args' = inp
          /\ \E m \in {preflight_main(inp, oracle, screen)} :
                /\ events' = m.ev
                /\ stdout' = m.out
                /\ exitCode' = m.rc
    /\ command' = "preflight_hook"
    /\ pc' = "done"
    /\ UNCHANGED <<screen, windows, oracle, ret>>

SpecHook == InitHook /\ [][PreflightHook]_vars

\* ---- claim C20
\* a finished run of the hook whose input is a tool call with a command string
HookRan == pc = "done" /\ command = "preflight_hook"

GateOnCommand ==
    HookRan /\ args.json = "object" /\ args.tool_input = "object" /\ args.cmd_kind = "string"

MentionsDriver == GateOnCommand /\ is_dev_driver_command(args.cmd)

\* the inspect child process ran to its end and reported another screen size
InspectReportsMismatch ==
    /\ oracle.driver_exists /\ oracle.run = "exits"
    /\ screen # <<SCREEN_WIDTH, SCREEN_HEIGHT>>

\* C20: for a command that mentions the driver the gate exits with code 2 when
\* inspect reports a screen size other than 1920x1080 and with code 0 when
\* inspect times out or its output cannot be parsed; a command that does not
\* mention the driver is allowed (code 0) without running inspect; the gate's
\* exit code is always 0 or 2.
C20_GateExitCodes ==
    HookRan
    => /\ (MentionsDriver /\ InspectReportsMismatch) => exitCode = 2
       /\ (MentionsDriver /\ oracle.driver_exists
             /\ oracle.run \in {"timeout", "garbled", "not_object"}) => exitCode = 0
       /\ (GateOnCommand /\ ~MentionsDriver)
             => exitCode = 0 /\ Calls("subprocess.run") = {}
       /\ exitCode \in {0, 2}

\* ---- claims C21..C23
\* a finished absolute click with a window title and --verify-window
VerifiedAbsClick ==
    AbsClick /\ strip(args.window_title) # <<>> /\ args.verify_window

\* C21: in an absolute click with a window title and --verify-window, every
\* pointer message is posted to the window whose top-level ancestor was verified,
\* so no message goes to a window whose top-level ancestor is not the target,
\* even when the window under the point changes between the verifying hit-test
\* and the posting.
C21_PostsToVerifiedWindow ==
    VerifiedAbsClick
    => \A p \in Calls("PostMessage") :
          /\ Resolved
          /\ events[p].hwnd = FirstHit
          /\ root_hwnd(events[p].hwnd) = Target

\* a window observe that reported success
WindowObserveOk ==
    Ran("observe") /\ strip(args.window_title) # <<>> /\ exitCode = 0

\* the rectangle in the result line, and the box the image was cropped to
ReportedRect == SubSeq(stdout[1].nums, 1, 4)
CropBoxes == { events[i].rest : i \in Calls("crop") }

\* C22: in a successful window observe the rectangle used for the crop and
\* reported in the result is the rectangle the window had at the instant of the
\* pixel grab; when the window moves or resizes between the grab and the
\* rectangle query the run does not succeed with a crop and rectangle that
\* disagree with the grabbed pixels.
C22_RectIsRectAtGrab ==
    WindowObserveOk
    => /\ ReportedRect = oracle.grab_rect
       /\ CropBoxes = {oracle.grab_rect}

\* the absolute points a click converted to client coordinates to post at
PostedPoints ==
    { <<events[i].x, events[i].y>> : i \in Calls("ScreenToClient") }

\* the live screen size was read before the first message was posted and is
\* the fixed one
ScreenCheckedBeforePost ==
    /\ screen = <<SCREEN_WIDTH, SCREEN_HEIGHT>>
    /\ \A p \in Calls("PostMessage") : \E g \in Calls("GetSystemMetrics") : g < p

\* C23: whenever a click, absolute or relative and in either rectangle mode,
\* posts pointer messages, the absolute target point satisfies 0 <= x < 1920 and
\* 0 <= y < 1080 and the live screen size was checked to be 1920x1080; a
\* relative click on a window whose rectangle extends beyond the screen never
\* posts at a point outside those bounds.
C23_PostsOnlyInsideCheckedScreen ==
    (Ran("click") /\ Calls("PostMessage") # {})
    => /\ PostedPoints # {}
       /\ \A pt \in PostedPoints :
             /\ 0 <= pt[1] /\ pt[1] < SCREEN_WIDTH
             /\ 0 <= pt[2] /\ pt[2] < SCREEN_HEIGHT
       /\ ScreenCheckedBeforePost

====
